---- MODULE Spec2Model ----
(***************************************************************************)
(* The generated-code execution pipeline of src/src/pythonExecutor.ts:     *)
(* PythonExecutor.executeAnalysis / executeComparison (the orchestrator)   *)
(* and PythonExecutor.runPythonScript (the subprocess engine), run by two  *)
(* concurrent requests on one Node.js event loop that share the temp       *)
(* directory; the data-frame serializer of LLMService                      *)
(* (src/unnamed/part_003, src/src/llmService.ts) with the interpreter's    *)
(* reading of the code it generates; and the epilogue the orchestrator     *)
(* appends to every script.                                                *)
(***************************************************************************)
EXTENDS Integers, Sequences, FiniteSets, TLC

\* ------------------------------------------------------------------ bounds
\* Clock advances and stream chunks followed for one request on its own.
SoloTicks == 2
SoloChunks == 2
\* The same for two concurrent requests.
PairTicks == 1
PairChunks == 1
\* Longest captured stdout, in chunks, the result extraction is checked on.
MaxOut == 4

\* --------------------------------------------------------- program constants
StandardTimeoutMs == 120000
ExtendedTimeoutMs == 300000
ComparisonTimeoutMs == 300000
LargeSheetRows == 5000
StallMs == 60000

\* ------------------------------------------------------------- environment
\* The concurrent requests (calls of executeAnalysis / executeComparison).
Reqs == {1, 2}
Kinds == {"analysis", "comparison"}
\* Exit codes: NullCode is the `null` code of a process ended by a signal,
\* SpawnErrCode the negative errno Node passes to 'close' after a failed
\* spawn, NoSuchFileCode the interpreter's exit code when it cannot open the
\* script.
NullCode == -9
SpawnErrCode == -2
NoSuchFileCode == 2
\* No 'close' event yet, no 'error' event yet.
NoCode == -1
NoMessage == ""
\* Row counts of the sheets of the datasets handed to the orchestrator.
RowCounts == {LargeSheetRows - 1, LargeSheetRows, LargeSheetRows + 1}
Datasets == {<<a>> : a \in RowCounts} \cup {<<a, b>> : a \in RowCounts, b \in RowCounts}
\* Text chunks a script writes: two JSON documents, the JSON literal null,
\* free text that is not JSON, and the line break.
JsonTokens == {"{\"a\":1}", "[2]", "null"}
StdoutTokens == JsonTokens \cup {"progress", "\n"}
StderrTokens == {"Traceback", "Warning"}
Whitespace == {"\n"}

\* What the environment of a run may do: how far the clock moves and in which
\* steps, the datasets requested, the chunks and exit codes of the processes,
\* the spawn errors.
SoloEnv ==
  [ticks |-> SoloTicks, steps |-> {1, StallMs},
   datasets |-> {<<LargeSheetRows>>, <<LargeSheetRows + 1>>},
   chunks |-> SoloChunks, out |-> {"[2]", "progress"}, err |-> StderrTokens,
   codes |-> {0, 1, NullCode}, errors |-> {"ENOENT", "EACCES"}]
PairEnv ==
  [ticks |-> PairTicks, steps |-> {1}, datasets |-> {<<LargeSheetRows>>},
   chunks |-> PairChunks, out |-> {"[2]"}, err |-> {"Traceback"},
   codes |-> {0, 1}, errors |-> {"ENOENT"}]
\* The calls on their own, up to the first await, on every dataset.
SelectEnv ==
  [ticks |-> 0, steps |-> {1}, datasets |-> Datasets,
   chunks |-> 0, out |-> {}, err |-> {}, codes |-> {}, errors |-> {}]
CapturedEnv ==
  [ticks |-> 0, steps |-> {1}, datasets |-> {<<LargeSheetRows>>},
   chunks |-> 0, out |-> StdoutTokens, err |-> StderrTokens,
   codes |-> {0, 1}, errors |-> {"ENOENT"}]

VARIABLES now, files, pc, scriptPath, timeoutMs, python, loaded, stdout, stderr,
          isTimedOut, lastOutputTime, timeout, progressMonitor, signal,
          runOutcome, settleCalls, outcome, fileAtSettle, warned, caught,
          exitCode, lastError, args,
          sheet, script, frame, result, printed,
          route, responses, unhandled, probe, probeCode, pythonAvailable,
          workbook, processedData

\* The script generation on its own: the sheet handed to the serializer, the
\* construction code generated for it, the table the interpreter builds from
\* that code, the result variable of an analysis and what the epilogue prints.
generation == <<sheet, script, frame, result, printed>>

\* The HTTP layer: where the handler of each request stands, the responses it
\* has sent, whether a rejection escaped it, and for GET /health the probe
\* process, its exit code and the promise of validatePythonEnvironment.
server == <<route, responses, unhandled, probe, probeCode, pythonAvailable>>

\* The upload: the workbook read from the file and the dataset stored for it.
upload == <<workbook, processedData>>

vars == <<now, files, pc, scriptPath, timeoutMs, python, loaded, stdout, stderr,
          isTimedOut, lastOutputTime, timeout, progressMonitor, signal,
          runOutcome, settleCalls, outcome, fileAtSettle, warned, caught,
          exitCode, lastError, args, generation, server, upload>>

\* ------------------------------------------------------------- file system
\* The temp directory: the set of files in it, each a path and a content. A
\* script's content is identified by the request that wrote it.
NoPath == <<"none", 0>>
NoFile == 0
NotLoaded == -1
Exists(fs, p) == \E f \in fs : f.path = p
Content(fs, p) == IF Exists(fs, p) THEN (CHOOSE f \in fs : f.path = p).content ELSE NoFile
Unlink(fs, p) == {f \in fs : f.path # p}
WriteFile(fs, p, c) == Unlink(fs, p) \cup {[path |-> p, content |-> c]}

\* ------------------------------------------------------------------ values
Pending == [state |-> "pending"]
Resolved(v) == [state |-> "resolved", val |-> v]
Rejected(e) == [state |-> "rejected", err |-> e]
NoError == [tag |-> "none"]
GenerationError == [tag |-> "GenerationError"]
WriteError == [tag |-> "WriteError"]
UnlinkEPERM == [tag |-> "UnlinkError", code |-> "EPERM"]
UnlinkENOENT == [tag |-> "UnlinkError", code |-> "ENOENT"]
TimeoutError(ms) == [tag |-> "Timeout", seconds |-> ms \div 1000]
ExecutionFailedLastChunk(code, err) ==
  [tag |-> "ExecutionFailed", code |-> code,
   stderr |-> IF err = <<>> THEN err ELSE <<err[Len(err)]>>]
ExecutionFailed(code, err) == [tag |-> "ExecutionFailed", code |-> code, stderr |-> err]
SpawnFailed(msg) == [tag |-> "SpawnFailed", message |-> msg]
JsonValue(v) == [type |-> "json", value |-> v]
RawText(s) == [type |-> "text", value |-> s]

\* ------------------------------------------- runPythonScript: result parsing
\* String.prototype.trim on the captured text.
RECURSIVE TrimLeft(_)
TrimLeft(s) == IF s # <<>> /\ Head(s) \in Whitespace THEN TrimLeft(Tail(s)) ELSE s
RECURSIVE TrimRight(_)
TrimRight(s) ==
  IF s # <<>> /\ s[Len(s)] \in Whitespace THEN TrimRight(SubSeq(s, 1, Len(s) - 1)) ELSE s
Trim(s) == TrimRight(TrimLeft(s))

\* String.prototype.split('\n'): the text of no characters splits into one
\* empty line.
RECURSIVE Split(_)
Split(s) ==
  IF \A i \in 1..Len(s) : s[i] # "\n" THEN <<s>>
  ELSE LET k == CHOOSE i \in 1..Len(s) : s[i] = "\n" /\ \A j \in 1..(i - 1) : s[j] # "\n"
       IN <<SubSeq(s, 1, k - 1)>> \o Split(SubSeq(s, k + 1, Len(s)))

\* JSON.parse of one line: it returns a value when the line is one JSON
\* document and throws otherwise. JsNull is JavaScript's null.
JsNull == "<null>"
JsonParses(line) == Len(line) = 1 /\ line[1] \in JsonTokens
JsonParse(line) == IF line[1] = "null" THEN JsNull ELSE line[1]

\* The backward scan: jsonResult starts as null and takes the value of the
\* first line, from the end, that JSON.parse accepts.
RECURSIVE ScanLines(_, _)
ScanLines(lines, i) ==
  IF i = 0 THEN JsNull
  ELSE IF JsonParses(lines[i]) THEN JsonParse(lines[i])
  ELSE ScanLines(lines, i - 1)

\* An extraction that falls back to the captured text as it is.
ExtractResultUntrimmed(out) ==
  LET lines == Split(Trim(out))
      jsonResult == ScanLines(lines, Len(lines))
  IN IF jsonResult # JsNull THEN JsonValue(jsonResult) ELSE RawText(out)

\* What the 'close' handler resolves with on exit code 0.
ExtractResult(out) ==
  LET lines == Split(Trim(out))
      jsonResult == ScanLines(lines, Len(lines))
  IN IF jsonResult # JsNull THEN JsonValue(jsonResult) ELSE RawText(Trim(out))

\* ------------------------------------------------ orchestrator: the cleanup
\* A catch block that rethrows without deleting the script.
CatchCleanupKeepsFile(fs, p, e, unlinkOk) ==
  [files |-> fs, out |-> Rejected(e), caught |-> e]

\* The catch block: delete the script if it exists, then rethrow `e`. unlinkOk
\* is whether fs.unlinkSync succeeds; when it throws, its error replaces `e`.
CatchCleanup(fs, p, e, unlinkOk) ==
  IF Exists(fs, p)
  THEN IF unlinkOk THEN [files |-> Unlink(fs, p), out |-> Rejected(e), caught |-> e]
       ELSE [files |-> fs, out |-> Rejected(UnlinkEPERM), caught |-> e]
  ELSE [files |-> fs, out |-> Rejected(e), caught |-> e]

\* The code after `await this.runPythonScript(...)`: on a value, unlink and
\* return it (an unlink that throws lands in the catch block); on an error,
\* the catch block.
AfterRun(fs, p, ro, unlinkOk1, unlinkOk2) ==
  IF ro.state = "resolved"
  THEN IF ~Exists(fs, p) THEN CatchCleanup(fs, p, UnlinkENOENT, unlinkOk2)
       ELSE IF unlinkOk1 THEN [files |-> Unlink(fs, p), out |-> ro, caught |-> NoError]
       ELSE CatchCleanup(fs, p, UnlinkEPERM, unlinkOk2)
  ELSE CatchCleanup(fs, p, ro.err, unlinkOk1)

\* Timeout selection: executeAnalysis looks at the sheets of its dataset,
\* executeComparison passes a fixed value whatever its two datasets are.
HasLargeSheets(data) == \E i \in 1..Len(data) : data[i] > LargeSheetRows
SelectTimeout(kind, given) ==
  IF kind = "comparison" THEN ComparisonTimeoutMs
  ELSE IF HasLargeSheets(given[1]) THEN ExtendedTimeoutMs ELSE StandardTimeoutMs

\* The datasets a call is given: one for executeAnalysis (data), two for
\* executeComparison (data1, data2).
Arguments(kind, E) ==
  IF kind = "comparison" THEN {<<data1, data2>> : data1 \in E.datasets, data2 \in E.datasets}
  ELSE {<<data>> : data \in E.datasets}

ScriptPath(kind, scriptId) == <<kind, scriptId>>

\* ------------------------------------------------------------------- state
\* No sheet has been handed to the serializer and no epilogue has run.
None == [kind |-> "none"]
NoGeneration ==
  /\ sheet = None
  /\ script = None
  /\ frame = None
  /\ result = None
  /\ printed = None

NoRequest ==
  /\ now = 0
  /\ files = {}
  /\ pc = [r \in Reqs |-> "idle"]
  /\ scriptPath = [r \in Reqs |-> NoPath]
  /\ timeoutMs = [r \in Reqs |-> 0]
  /\ python = [r \in Reqs |-> "none"]
  /\ loaded = [r \in Reqs |-> NotLoaded]
  /\ stdout = [r \in Reqs |-> <<>>]
  /\ stderr = [r \in Reqs |-> <<>>]
  /\ isTimedOut = [r \in Reqs |-> FALSE]
  /\ lastOutputTime = [r \in Reqs |-> 0]
  /\ timeout = [r \in Reqs |-> "unset"]
  /\ progressMonitor = [r \in Reqs |-> "unset"]
  /\ signal = [r \in Reqs |-> "none"]
  /\ runOutcome = [r \in Reqs |-> Pending]
  /\ settleCalls = [r \in Reqs |-> 0]
  /\ outcome = [r \in Reqs |-> Pending]
  /\ fileAtSettle = [r \in Reqs |-> FALSE]
  /\ warned = [r \in Reqs |-> FALSE]
  /\ caught = [r \in Reqs |-> NoError]
  /\ exitCode = [r \in Reqs |-> NoCode]
  /\ lastError = [r \in Reqs |-> NoMessage]
  /\ args = [r \in Reqs |-> <<>>]

\* No HTTP request has arrived and nothing has been uploaded.
Idle == [stage |-> "idle"]
NoTraffic ==
  /\ route = [r \in Reqs |-> Idle]
  /\ responses = [r \in Reqs |-> <<>>]
  /\ unhandled = [r \in Reqs |-> FALSE]
  /\ probe = [r \in Reqs |-> "none"]
  /\ probeCode = [r \in Reqs |-> NoCode]
  /\ pythonAvailable = [r \in Reqs |-> Pending]
NoUpload ==
  /\ workbook = None
  /\ processedData = None

Init == NoRequest /\ NoGeneration /\ NoTraffic /\ NoUpload

\* ----------------------------------------------------------- the event loop
\* A request between its `await` of the generated data-frame code and the
\* continuation has a microtask queued; Node runs it before any timer or
\* process event.
MicrotaskPending == \E r \in Reqs : pc[r] = "generating"
RECURSIVE SumLen(_, _)
SumLen(f, R) ==
  IF R = {} THEN 0 ELSE LET r == CHOOSE x \in R : TRUE IN Len(f[r]) + SumLen(f, R \ {r})
Chunks == SumLen(stdout, Reqs) + SumLen(stderr, Reqs)
TicksTaken == (now \div StallMs) + (now % StallMs)

\* Date.now() advances.
Tick(E) ==
  /\ TicksTaken < E.ticks
  /\ \E d \in E.steps : now' = now + d
  /\ UNCHANGED <<files, pc, scriptPath, timeoutMs, python, loaded, stdout, stderr,
                 isTimedOut, lastOutputTime, timeout, progressMonitor, signal,
                 runOutcome, settleCalls, outcome, fileAtSettle, warned, caught, exitCode, lastError,
                 args, generation, server, upload>>

\* executeAnalysis / executeComparison up to the first await: the script path
\* is taken from Date.now(), the timeout from the data.
Start(r, E) ==
  /\ pc[r] = "idle"
  /\ \E kind \in Kinds :
       \E given \in Arguments(kind, E) :
         /\ args' = [args EXCEPT ![r] = given]
         /\ scriptPath' = [scriptPath EXCEPT ![r] = ScriptPath(kind, now)]
         /\ timeoutMs' = [timeoutMs EXCEPT ![r] = SelectTimeout(kind, given)]
  /\ pc' = [pc EXCEPT ![r] = "generating"]
  /\ UNCHANGED <<now, files, python, loaded, stdout, stderr, isTimedOut,
                 lastOutputTime, timeout, progressMonitor, signal, runOutcome,
                 settleCalls, outcome, fileAtSettle, warned, caught, exitCode, lastError,
                 generation, server, upload>>

\* The call of r settles with `res.out`, leaving the directory as `res.files`.
Finish(r, res) ==
  /\ files' = res.files
  /\ outcome' = [outcome EXCEPT ![r] = res.out]
  /\ fileAtSettle' = [fileAtSettle EXCEPT ![r] = Exists(res.files, scriptPath[r])]
  /\ caught' = [caught EXCEPT ![r] = res.caught]
  /\ pc' = [pc EXCEPT ![r] = "done"]

\* The data-frame code generation threw: catch block, nothing written.
GenerationThrows(r) ==
  /\ pc[r] = "generating"
  /\ \E unlinkOk \in BOOLEAN :
       Finish(r, CatchCleanup(files, scriptPath[r], GenerationError, unlinkOk))
  /\ UNCHANGED <<now, scriptPath, timeoutMs, python, loaded, stdout, stderr,
                 isTimedOut, lastOutputTime, timeout, progressMonitor, signal,
                 runOutcome, settleCalls, warned, exitCode, lastError, args, generation, server, upload>>

\* fs.writeFileSync threw, with or without leaving a (partial) file behind.
WriteThrows(r) ==
  /\ pc[r] = "generating"
  /\ \E created \in BOOLEAN, unlinkOk \in BOOLEAN :
       LET fs1 == IF created THEN WriteFile(files, scriptPath[r], r) ELSE files
       IN Finish(r, CatchCleanup(fs1, scriptPath[r], WriteError, unlinkOk))
  /\ UNCHANGED <<now, scriptPath, timeoutMs, python, loaded, stdout, stderr,
                 isTimedOut, lastOutputTime, timeout, progressMonitor, signal,
                 runOutcome, settleCalls, warned, exitCode, lastError, args, generation, server, upload>>

\* A call that starts the interpreter without having written the script.
SpawnWithoutWrite(r) ==
  /\ pc[r] = "generating"
  /\ files' = files
  /\ \E spawned \in BOOLEAN :
       python' = [python EXCEPT ![r] = IF spawned THEN "starting" ELSE "failing"]
  /\ stdout' = [stdout EXCEPT ![r] = <<>>]
  /\ stderr' = [stderr EXCEPT ![r] = <<>>]
  /\ isTimedOut' = [isTimedOut EXCEPT ![r] = FALSE]
  /\ lastOutputTime' = [lastOutputTime EXCEPT ![r] = now]
  /\ timeout' = [timeout EXCEPT ![r] = "armed"]
  /\ progressMonitor' = [progressMonitor EXCEPT ![r] = "armed"]
  /\ pc' = [pc EXCEPT ![r] = "running"]
  /\ UNCHANGED <<now, scriptPath, timeoutMs, loaded, signal, runOutcome,
                 settleCalls, outcome, fileAtSettle, warned, caught, exitCode, lastError,
                 args, generation, server, upload>>

\* The script is written and runPythonScript starts: spawn, the captured
\* streams, the timeout timer and the stall monitor.
WriteAndSpawn(r) ==
  /\ pc[r] = "generating"
  /\ files' = WriteFile(files, scriptPath[r], r)
  /\ \E spawned \in BOOLEAN :
       python' = [python EXCEPT ![r] = IF spawned THEN "starting" ELSE "failing"]
  /\ stdout' = [stdout EXCEPT ![r] = <<>>]
  /\ stderr' = [stderr EXCEPT ![r] = <<>>]
  /\ isTimedOut' = [isTimedOut EXCEPT ![r] = FALSE]
  /\ lastOutputTime' = [lastOutputTime EXCEPT ![r] = now]
  /\ timeout' = [timeout EXCEPT ![r] = "armed"]
  /\ progressMonitor' = [progressMonitor EXCEPT ![r] = "armed"]
  /\ pc' = [pc EXCEPT ![r] = "running"]
  /\ UNCHANGED <<now, scriptPath, timeoutMs, loaded, signal, runOutcome,
                 settleCalls, outcome, fileAtSettle, warned, caught, exitCode, lastError,
                 args, generation, server, upload>>

\* The interpreter opens the script file named on its command line.
ProcLoad(r) ==
  /\ ~MicrotaskPending
  /\ python[r] = "starting"
  /\ python' = [python EXCEPT ![r] = "running"]
  /\ loaded' = [loaded EXCEPT ![r] = Content(files, scriptPath[r])]
  /\ UNCHANGED <<now, files, pc, scriptPath, timeoutMs, stdout, stderr, isTimedOut,
                 lastOutputTime, timeout, progressMonitor, signal, runOutcome,
                 settleCalls, outcome, fileAtSettle, warned, caught, exitCode, lastError,
                 args, generation, server, upload>>

\* python.stdout.on('data')
StdoutData(r, E) ==
  /\ ~MicrotaskPending
  /\ python[r] = "running"
  /\ loaded[r] # NoFile
  /\ Chunks < E.chunks
  /\ \E data \in E.out : stdout' = [stdout EXCEPT ![r] = Append(@, data)]
  /\ lastOutputTime' = [lastOutputTime EXCEPT ![r] = now]
  /\ UNCHANGED <<now, files, pc, scriptPath, timeoutMs, python, loaded, stderr,
                 isTimedOut, timeout, progressMonitor, signal, runOutcome,
                 settleCalls, outcome, fileAtSettle, warned, caught, exitCode, lastError,
                 args, generation, server, upload>>

\* python.stderr.on('data')
StderrData(r, E) ==
  /\ ~MicrotaskPending
  /\ python[r] = "running"
  /\ Chunks < E.chunks
  /\ \E data \in E.err : stderr' = [stderr EXCEPT ![r] = Append(@, data)]
  /\ UNCHANGED <<now, files, pc, scriptPath, timeoutMs, python, loaded, stdout,
                 isTimedOut, lastOutputTime, timeout, progressMonitor, signal,
                 runOutcome, settleCalls, outcome, fileAtSettle, warned, caught, exitCode, lastError,
                 args, generation, server, upload>>

\* A stall monitor that cancels the timeout when it warns.
MonitorTickCancelsTimeout(r) ==
  /\ ~MicrotaskPending
  /\ progressMonitor[r] = "armed"
  /\ warned' = [warned EXCEPT ![r] = @ \/ (now - lastOutputTime[r] > StallMs)]
  /\ timeout' = [timeout EXCEPT ![r] =
                   IF now - lastOutputTime[r] > StallMs /\ @ = "armed" THEN "cleared" ELSE @]
  /\ UNCHANGED <<now, files, pc, scriptPath, timeoutMs, python, loaded, stdout,
                 stderr, isTimedOut, lastOutputTime, progressMonitor,
                 signal, runOutcome, settleCalls, outcome, fileAtSettle, caught, exitCode, lastError,
                 args, generation, server, upload>>

\* The setInterval callback of the stall monitor.
MonitorTick(r) ==
  /\ ~MicrotaskPending
  /\ progressMonitor[r] = "armed"
  /\ warned' = [warned EXCEPT ![r] = @ \/ (now - lastOutputTime[r] > StallMs)]
  /\ UNCHANGED <<now, files, pc, scriptPath, timeoutMs, python, loaded, stdout,
                 stderr, isTimedOut, lastOutputTime, timeout, progressMonitor,
                 signal, runOutcome, settleCalls, outcome, fileAtSettle, caught, exitCode, lastError,
                 args, generation, server, upload>>

\* A call of the promise's resolve or reject with `ro`. Only the first call
\* settles the promise; the awaiting orchestrator then continues with it.
Settle(r, ro) ==
  /\ settleCalls' = [settleCalls EXCEPT ![r] = @ + 1]
  /\ IF runOutcome[r] = Pending
     THEN /\ runOutcome' = [runOutcome EXCEPT ![r] = ro]
          /\ \E unlinkOk1 \in BOOLEAN, unlinkOk2 \in BOOLEAN :
               Finish(r, AfterRun(files, scriptPath[r], ro, unlinkOk1, unlinkOk2))
     ELSE UNCHANGED <<runOutcome, files, outcome, fileAtSettle, pc, caught>>

\* A timeout callback that rejects without killing the process.
TimeoutCallbackNoKill(r) ==
  /\ isTimedOut' = [isTimedOut EXCEPT ![r] = TRUE]
  /\ UNCHANGED <<signal, python>>
  /\ Settle(r, Rejected(TimeoutError(timeoutMs[r])))

\* A timeout callback that kills the process and never rejects.
TimeoutCallbackNoReject(r) ==
  /\ isTimedOut' = [isTimedOut EXCEPT ![r] = TRUE]
  /\ signal' = [signal EXCEPT ![r] = "SIGKILL"]
  /\ python' = [python EXCEPT ![r] = IF @ \in {"starting", "running"} THEN "killed" ELSE @]
  /\ UNCHANGED <<settleCalls, runOutcome, files, outcome, fileAtSettle, pc, caught>>

\* What the setTimeout callback does.
TimeoutCallback(r) ==
  /\ isTimedOut' = [isTimedOut EXCEPT ![r] = TRUE]
  /\ signal' = [signal EXCEPT ![r] = "SIGKILL"]
  /\ python' = [python EXCEPT ![r] = IF @ \in {"starting", "running"} THEN "killed" ELSE @]
  /\ Settle(r, Rejected(TimeoutError(timeoutMs[r])))

\* The timeout timer fires. The delay is not measured on `now`: an armed
\* timer may fire at any later moment, which covers every duration of the
\* subprocess. A failed spawn reports its error on the next tick, before any
\* timer.
TimeoutFire(r) ==
  /\ ~MicrotaskPending
  /\ timeout[r] = "armed"
  /\ python[r] # "failing"
  /\ timeout' = [timeout EXCEPT ![r] = "fired"]
  /\ TimeoutCallback(r)
  /\ UNCHANGED <<now, scriptPath, timeoutMs, loaded, stdout, stderr,
                 lastOutputTime, progressMonitor, warned, exitCode, lastError,
                 args, generation, server, upload>>

\* A 'close' handler that takes every exit code for a success.
CloseHandlerAnyCode(r, code) ==
  IF isTimedOut[r]
  THEN UNCHANGED <<timeout, progressMonitor, runOutcome, settleCalls, files,
                   outcome, fileAtSettle, pc, caught>>
  ELSE /\ timeout' = [timeout EXCEPT ![r] = "cleared"]
       /\ progressMonitor' = [progressMonitor EXCEPT ![r] = "cleared"]
       /\ Settle(r, Resolved(ExtractResult(stdout[r])))

\* A 'close' handler without the isTimedOut guard.
CloseHandlerNoGuard(r, code) ==
  /\ timeout' = [timeout EXCEPT ![r] = "cleared"]
  /\ progressMonitor' = [progressMonitor EXCEPT ![r] = "cleared"]
  /\ IF code # 0
     THEN Settle(r, Rejected(ExecutionFailed(code, stderr[r])))
     ELSE Settle(r, Resolved(ExtractResult(stdout[r])))

\* What python.on('close') does with the exit code.
CloseHandler(r, code) ==
  IF isTimedOut[r]
  THEN UNCHANGED <<timeout, progressMonitor, runOutcome, settleCalls, files,
                   outcome, fileAtSettle, pc, caught>>
  ELSE /\ timeout' = [timeout EXCEPT ![r] = "cleared"]
       /\ progressMonitor' = [progressMonitor EXCEPT ![r] = "cleared"]
       /\ IF code # 0
          THEN Settle(r, Rejected(ExecutionFailed(code, stderr[r])))
          ELSE Settle(r, Resolved(ExtractResult(stdout[r])))

\* The 'close' event: a killed process closes with no code, or with its own
\* exit code when it had already exited as the signal was sent; a process
\* that never started closes with the spawn errno, an interpreter that found
\* no script with its usage exit code.
CloseCodes(r, E) ==
  IF python[r] = "killed" THEN {NullCode} \cup E.codes
  ELSE IF python[r] = "errored" THEN {SpawnErrCode}
  ELSE IF loaded[r] = NoFile THEN {NoSuchFileCode}
  ELSE E.codes

Close(r, E) ==
  /\ ~MicrotaskPending
  /\ python[r] \in {"running", "killed", "errored"}
  /\ python' = [python EXCEPT ![r] = "closed"]
  /\ \E code \in CloseCodes(r, E) :
       /\ exitCode' = [exitCode EXCEPT ![r] = code]
       /\ CloseHandler(r, code)
  /\ UNCHANGED <<now, scriptPath, timeoutMs, loaded, stdout, stderr, isTimedOut,
                 lastOutputTime, signal, warned, lastError, args, generation, server, upload>>

\* An 'error' handler that leaves the timeout timer armed.
ErrorHandlerKeepsTimer(r, message) ==
  /\ UNCHANGED timeout
  /\ progressMonitor' = [progressMonitor EXCEPT ![r] = "cleared"]
  /\ Settle(r, Rejected(SpawnFailed(message)))

\* What python.on('error') does.
ErrorHandler(r, message) ==
  IF isTimedOut[r]
  THEN UNCHANGED <<timeout, progressMonitor, runOutcome, settleCalls, files,
                   outcome, fileAtSettle, pc, caught>>
  ELSE /\ timeout' = [timeout EXCEPT ![r] = "cleared"]
       /\ progressMonitor' = [progressMonitor EXCEPT ![r] = "cleared"]
       /\ Settle(r, Rejected(SpawnFailed(message)))

\* The 'error' event of a process that could not be started.
ErrorEvent(r, E) ==
  /\ ~MicrotaskPending
  /\ python[r] = "failing"
  /\ python' = [python EXCEPT ![r] = "errored"]
  /\ \E message \in E.errors :
       /\ lastError' = [lastError EXCEPT ![r] = message]
       /\ ErrorHandler(r, message)
  /\ UNCHANGED <<now, scriptPath, timeoutMs, loaded, stdout, stderr, isTimedOut,
                 lastOutputTime, signal, warned, exitCode, args, generation, server, upload>>

\* The steps of the requests in R under the environment E.
NextOf(R, E) ==
  \/ Tick(E)
  \/ \E r \in R : Start(r, E)
  \/ \E r \in R : GenerationThrows(r)
  \/ \E r \in R : WriteThrows(r)
  \/ \E r \in R : WriteAndSpawn(r)
  \/ \E r \in R : ProcLoad(r)
  \/ \E r \in R : StdoutData(r, E)
  \/ \E r \in R : StderrData(r, E)
  \/ \E r \in R : MonitorTick(r)
  \/ \E r \in R : TimeoutFire(r)
  \/ \E r \in R : Close(r, E)
  \/ \E r \in R : ErrorEvent(r, E)

\* Two concurrent requests.
Next == NextOf(Reqs, PairEnv)
Spec == Init /\ [][Next]_vars

\* One request on its own.
NextSolo == NextOf({1}, SoloEnv)
SpecSolo == Init /\ [][NextSolo]_vars

\* One call from its start to the end of the code generation or of the
\* write, on every dataset.
NextSelect ==
  \/ Start(1, SelectEnv)
  \/ GenerationThrows(1)
  \/ WriteThrows(1)
SpecSelect == Init /\ [][NextSelect]_vars

\* The 'close' handler on every captured stdout of up to MaxOut chunks: one
\* analysis request whose process is running and has written `out`.
SeqsUpTo(S, n) == UNION {[1..k -> S] : k \in 0..n}
InitCaptured ==
  /\ now = 0
  /\ files = {[path |-> ScriptPath("analysis", 0), content |-> 1]}
  /\ pc = [r \in Reqs |-> IF r = 1 THEN "running" ELSE "idle"]
  /\ scriptPath = [r \in Reqs |-> IF r = 1 THEN ScriptPath("analysis", 0) ELSE NoPath]
  /\ timeoutMs = [r \in Reqs |-> IF r = 1 THEN StandardTimeoutMs ELSE 0]
  /\ python = [r \in Reqs |-> IF r = 1 THEN "running" ELSE "none"]
  /\ loaded = [r \in Reqs |-> IF r = 1 THEN 1 ELSE NotLoaded]
  /\ \E out \in SeqsUpTo(StdoutTokens, MaxOut) :
       stdout = [r \in Reqs |-> IF r = 1 THEN out ELSE <<>>]
  /\ stderr = [r \in Reqs |-> <<>>]
  /\ isTimedOut = [r \in Reqs |-> FALSE]
  /\ lastOutputTime = [r \in Reqs |-> 0]
  /\ timeout = [r \in Reqs |-> IF r = 1 THEN "armed" ELSE "unset"]
  /\ progressMonitor = [r \in Reqs |-> IF r = 1 THEN "armed" ELSE "unset"]
  /\ signal = [r \in Reqs |-> "none"]
  /\ runOutcome = [r \in Reqs |-> Pending]
  /\ settleCalls = [r \in Reqs |-> 0]
  /\ outcome = [r \in Reqs |-> Pending]
  /\ fileAtSettle = [r \in Reqs |-> FALSE]
  /\ warned = [r \in Reqs |-> FALSE]
  /\ caught = [r \in Reqs |-> NoError]
  /\ exitCode = [r \in Reqs |-> NoCode]
  /\ lastError = [r \in Reqs |-> NoMessage]
  /\ args = [r \in Reqs |-> IF r = 1 THEN <<<<LargeSheetRows>>>> ELSE <<>>]
  /\ NoGeneration /\ NoTraffic /\ NoUpload
NextCaptured ==
  \/ Close(1, CapturedEnv)
  \/ TimeoutFire(1)
  \/ MonitorTick(1)
SpecCaptured == InitCaptured /\ [][NextCaptured]_vars

\* One request under the scheduling Node guarantees: an armed timer fires, and
\* the 'error' event of a failed spawn is delivered. Nothing makes the
\* subprocess exit.
FairSolo ==
  /\ SpecSolo
  /\ WF_vars(TimeoutFire(1))
  /\ WF_vars(ErrorEvent(1, SoloEnv))

\* =========================================================== the serializer
\* LLMService.generateDataFrameCreationCode and its helpers: the text of a
\* string is the sequence of its characters.
Backslash == "\\"
Quote == "'"
DoubleQuote == "\""
Newline == "\n"
Return == "\r"
Tab == "\t"
SpecialChars == {Backslash, Quote, DoubleQuote, Newline, Return, Tab}
Chars == SpecialChars \cup {"a", "n"}

\* The values a cell of sheet.data can hold. A row shorter than the header
\* list yields undefined; a Date or any other object is known by String(val).
Null == [t |-> "null"]
Undefined == [t |-> "undefined"]
Str(s) == [t |-> "string", s |-> s]
Num(n) == [t |-> "number", n |-> n]
Bool(b) == [t |-> "boolean", b |-> b]
Obj(s) == [t |-> "object", s |-> s]

\* String.prototype.replace(/ch/g, by)
RECURSIVE ReplaceAll(_, _, _)
ReplaceAll(s, ch, by) ==
  IF s = <<>> THEN <<>>
  ELSE (IF Head(s) = ch THEN by ELSE <<Head(s)>>) \o ReplaceAll(Tail(s), ch, by)

\* An escaping that doubles the backslashes last.
EscapeBackslashLast(val) ==
  LET s1 == ReplaceAll(val, Quote, <<Backslash, Quote>>)
      s2 == ReplaceAll(s1, DoubleQuote, <<Backslash, DoubleQuote>>)
      s3 == ReplaceAll(s2, Newline, <<Backslash, "n">>)
      s4 == ReplaceAll(s3, Return, <<Backslash, "r">>)
      s5 == ReplaceAll(s4, Tab, <<Backslash, "t">>)
  IN ReplaceAll(s5, Backslash, <<Backslash, Backslash>>)

\* The chain of six replace calls applied to a string cell.
Escape(val) ==
  LET s1 == ReplaceAll(val, Backslash, <<Backslash, Backslash>>)
      s2 == ReplaceAll(s1, Quote, <<Backslash, Quote>>)
      s3 == ReplaceAll(s2, DoubleQuote, <<Backslash, DoubleQuote>>)
      s4 == ReplaceAll(s3, Newline, <<Backslash, "n">>)
      s5 == ReplaceAll(s4, Return, <<Backslash, "r">>)
  IN ReplaceAll(s5, Tab, <<Backslash, "t">>)

\* header.replace(/'/g, "\\'")
EscapeHeader(header) == ReplaceAll(header, Quote, <<Backslash, Quote>>)

\* Number.prototype.toString of an integer.
Digit == <<"0", "1", "2", "3", "4", "5", "6", "7", "8", "9">>
RECURSIVE Digits(_)
Digits(n) == IF n < 10 THEN <<Digit[n + 1]>> ELSE Digits(n \div 10) \o <<Digit[(n % 10) + 1]>>
NumberToString(n) == IF n < 0 THEN <<"-">> \o Digits(0 - n) ELSE Digits(n)

\* `'${escapedVal}'`
Quoted(body) == <<Quote>> \o body \o <<Quote>>

\* The first map over a column: null, undefined and '' become null.
ColumnValue(row, i) ==
  LET value == IF i <= Len(row) THEN row[i] ELSE Undefined
  IN IF value = Null \/ value = Undefined \/ value = Str(<<>>) THEN Null ELSE value

\* A literal map that writes booleans the JavaScript way.
PythonLiteralJsBooleans(val) ==
  IF val = Null THEN <<"N", "o", "n", "e">>
  ELSE IF val.t = "string" THEN Quoted(Escape(val.s))
  ELSE IF val.t = "number" THEN NumberToString(val.n)
  ELSE IF val.t = "boolean"
    THEN (IF val.b THEN <<"t", "r", "u", "e">> ELSE <<"f", "a", "l", "s", "e">>)
  ELSE Quoted(Escape(val.s))

\* The second map: the Python literal written for a column value.
PythonLiteral(val) ==
  IF val = Null THEN <<"N", "o", "n", "e">>
  ELSE IF val.t = "string" THEN Quoted(Escape(val.s))
  ELSE IF val.t = "number" THEN NumberToString(val.n)
  ELSE IF val.t = "boolean"
    THEN (IF val.b THEN <<"T", "r", "u", "e">> ELSE <<"F", "a", "l", "s", "e">>)
  ELSE Quoted(Escape(val.s))

\* ------------------------------------------------- the interpreter's reading
\* What Python makes of a literal. PyError is a script that does not compile.
PyError == [py |-> "error"]
PyNone == [py |-> "None"]
PyStr(s) == [py |-> "str", s |-> s]
PyInt(n) == [py |-> "int", n |-> n]
PyBool(b) == [py |-> "bool", b |-> b]

\* The body of a single-quoted literal, read from position i on: a recognised
\* escape gives its character, any other backslash pair is kept as it is; a
\* bare quote or line break, or a backslash with nothing after it, ends the
\* literal in the wrong place.
RECURSIVE PyUnescape(_, _)
PyUnescape(body, i) ==
  IF i > Len(body) THEN PyStr(<<>>)
  ELSE IF body[i] \in {Quote, Newline, Return} THEN PyError
  ELSE IF body[i] = Backslash
    THEN IF i = Len(body) THEN PyError
         ELSE LET c == body[i + 1]
                  rest == PyUnescape(body, i + 2)
                  this == IF c = "n" THEN <<Newline>>
                          ELSE IF c = "r" THEN <<Return>>
                          ELSE IF c = "t" THEN <<Tab>>
                          ELSE IF c \in {Backslash, Quote, DoubleQuote} THEN <<c>>
                          ELSE IF c \in {Newline, Return} THEN <<>>
                          ELSE <<Backslash, c>>
              IN IF rest = PyError THEN PyError ELSE PyStr(this \o rest.s)
  ELSE LET rest == PyUnescape(body, i + 1)
       IN IF rest = PyError THEN PyError ELSE PyStr(<<body[i]>> \o rest.s)

\* int(text) of a decimal literal.
DigitValue(c) == CHOOSE d \in 0..9 : Digit[d + 1] = c
RECURSIVE PyParseDigits(_)
PyParseDigits(text) ==
  IF Len(text) = 1 THEN DigitValue(text[1])
  ELSE 10 * PyParseDigits(SubSeq(text, 1, Len(text) - 1)) + DigitValue(text[Len(text)])
IsDigits(text) == text # <<>> /\ \A k \in 1..Len(text) : \E d \in 1..10 : Digit[d] = text[k]

\* The value of one literal of the generated code.
PyEval(literal) ==
  IF literal = <<"N", "o", "n", "e">> THEN PyNone
  ELSE IF literal = <<"T", "r", "u", "e">> THEN PyBool(TRUE)
  ELSE IF literal = <<"F", "a", "l", "s", "e">> THEN PyBool(FALSE)
  ELSE IF Len(literal) >= 2 /\ Head(literal) = Quote /\ literal[Len(literal)] = Quote
    THEN PyUnescape(SubSeq(literal, 2, Len(literal) - 1), 1)
  ELSE IF IsDigits(literal) THEN PyInt(PyParseDigits(literal))
  ELSE IF Len(literal) >= 2 /\ Head(literal) = "-" /\ IsDigits(Tail(literal))
    THEN PyInt(0 - PyParseDigits(Tail(literal)))
  ELSE PyError

\* ------------------------------------------------------ the generated code
\* The construction code is kept statement by statement; names and literals
\* are text.
\*   name = {}                      DictNew
\*   name['header'] = [v, ...]      SetItem
\*   name = pd.DataFrame(source)    NewFrame
\*   name = []                      ListNew
\*   name.append(source)            AppendTo
\*   name = pd.concat(source, ignore_index=True)   Concat
DictNew(name) == [op |-> "dict", target |-> name]
SetItem(name, key, list) == [op |-> "setitem", target |-> name, key |-> key, list |-> list]
NewFrame(name, source) == [op |-> "DataFrame", target |-> name, source |-> source]
ListNew(name) == [op |-> "list", target |-> name]
AppendTo(name, source) == [op |-> "append", target |-> name, source |-> source]
Concat(name, source) == [op |-> "concat", target |-> name, source |-> source]

\* sheetName.toLowerCase().replace(/[^a-zA-Z0-9]/g, '_') behind the prefix.
LowerCase(c) == IF c = "S" THEN "s" ELSE c
AlphaNumeric == {"s", "S", "1"}
SheetVarName(prefix, sheetName) ==
  prefix \o [i \in 1..Len(sheetName) |->
               IF LowerCase(sheetName[i]) \in AlphaNumeric THEN LowerCase(sheetName[i]) ELSE "_"]

\* The assignment of one column: `${name}['${escapedHeader}'] = ${pythonList}`
ColumnStatement(name, header, i, rows) ==
  SetItem(name, Quoted(EscapeHeader(header)),
          [r \in 1..Len(rows) |-> PythonLiteral(ColumnValue(rows[r], i))])

\* generateOriginalDataFrameCode and generateSingleDataFrameCode: one
\* dictionary of columns, one DataFrame.
generateOriginalDataFrameCode(s, varName) ==
  LET name == varName \o <<"_data">>
  IN <<DictNew(name)>>
     \o [i \in 1..Len(s.headers) |-> ColumnStatement(name, s.headers[i], i, s.data)]
     \o <<NewFrame(varName, name)>>
generateSingleDataFrameCode(s, varName) ==
  LET name == varName \o <<"_data">>
  IN <<DictNew(name)>>
     \o [i \in 1..Len(s.headers) |-> ColumnStatement(name, s.headers[i], i, s.data)]
     \o <<NewFrame(varName, name)>>

\* Array.prototype.slice(start, end), Math.ceil(a / b), Math.min.
Min(a, b) == IF a < b THEN a ELSE b
Slice(arr, start, end) == SubSeq(arr, start + 1, Min(end, Len(arr)))
Ceil(a, b) == (a + b - 1) \div b

ChunkSize == 3000

\* A chunk loop that starts every chunk one row early.
RECURSIVE ChunkLoopOverlapping(_, _, _, _)
ChunkLoopOverlapping(s, varName, chunkIndex, numChunks) ==
  IF chunkIndex >= numChunks THEN <<>>
  ELSE LET startRow == IF chunkIndex = 0 THEN 0 ELSE chunkIndex * ChunkSize - 1
           endRow == Min(chunkIndex * ChunkSize + ChunkSize, s.rowCount)
           chunkData == Slice(s.data, startRow, endRow)
           chunk == varName \o <<"_chunk">> \o NumberToString(chunkIndex)
           name == chunk \o <<"_data">>
       IN <<DictNew(name)>>
          \o [i \in 1..Len(s.headers) |-> ColumnStatement(name, s.headers[i], i, chunkData)]
          \o <<NewFrame(chunk, name), AppendTo(varName \o <<"_chunks">>, chunk)>>
          \o ChunkLoopOverlapping(s, varName, chunkIndex + 1, numChunks)

\* The loop of generateChunkedDataFrameCode from chunkIndex on.
RECURSIVE ChunkLoop(_, _, _, _)
ChunkLoop(s, varName, chunkIndex, numChunks) ==
  IF chunkIndex >= numChunks THEN <<>>
  ELSE LET startRow == chunkIndex * ChunkSize
           endRow == Min(startRow + ChunkSize, s.rowCount)
           chunkData == Slice(s.data, startRow, endRow)
           chunk == varName \o <<"_chunk">> \o NumberToString(chunkIndex)
           name == chunk \o <<"_data">>
       IN <<DictNew(name)>>
          \o [i \in 1..Len(s.headers) |-> ColumnStatement(name, s.headers[i], i, chunkData)]
          \o <<NewFrame(chunk, name), AppendTo(varName \o <<"_chunks">>, chunk)>>
          \o ChunkLoop(s, varName, chunkIndex + 1, numChunks)

generateChunkedDataFrameCode(s, varName) ==
  LET totalRows == s.rowCount
      numChunks == Ceil(totalRows, ChunkSize)
  IN <<ListNew(varName \o <<"_chunks">>)>>
     \o ChunkLoop(s, varName, 0, numChunks)
     \o <<Concat(varName, varName \o <<"_chunks">>)>>

\* The code for every sheet of a dataset, one after the other.
RECURSIVE Flatten(_)
Flatten(parts) == IF parts = <<>> THEN <<>> ELSE Head(parts) \o Flatten(Tail(parts))

\* A comparison serializer that chunks from the threshold itself on.
generateComparisonAtThreshold(data1, data2) ==
  Flatten([k \in 1..Len(data1) |->
             IF data1[k].rowCount >= LargeSheetRows
             THEN generateChunkedDataFrameCode(data1[k], SheetVarName(<<"df1_">>, data1[k].sheetName))
             ELSE generateSingleDataFrameCode(data1[k], SheetVarName(<<"df1_">>, data1[k].sheetName))])
  \o
  Flatten([k \in 1..Len(data2) |->
             IF data2[k].rowCount >= LargeSheetRows
             THEN generateChunkedDataFrameCode(data2[k], SheetVarName(<<"df2_">>, data2[k].sheetName))
             ELSE generateSingleDataFrameCode(data2[k], SheetVarName(<<"df2_">>, data2[k].sheetName))])

generateComparisonDataFrameCreationCode(data1, data2) ==
  Flatten([k \in 1..Len(data1) |->
             IF data1[k].rowCount > LargeSheetRows
             THEN generateChunkedDataFrameCode(data1[k], SheetVarName(<<"df1_">>, data1[k].sheetName))
             ELSE generateSingleDataFrameCode(data1[k], SheetVarName(<<"df1_">>, data1[k].sheetName))])
  \o
  Flatten([k \in 1..Len(data2) |->
             IF data2[k].rowCount > LargeSheetRows
             THEN generateChunkedDataFrameCode(data2[k], SheetVarName(<<"df2_">>, data2[k].sheetName))
             ELSE generateSingleDataFrameCode(data2[k], SheetVarName(<<"df2_">>, data2[k].sheetName))])

generateDataFrameCreationCode(sheets) ==
  Flatten([k \in 1..Len(sheets) |->
             IF sheets[k].rowCount > LargeSheetRows
             THEN generateChunkedDataFrameCode(sheets[k], SheetVarName(<<"df_">>, sheets[k].sheetName))
             ELSE generateOriginalDataFrameCode(sheets[k], SheetVarName(<<"df_">>, sheets[k].sheetName))])

\* ---------------------------------------------------- running the statements
\* The script compiles when every literal in it is well formed.
Compiles(statements) ==
  \A k \in 1..Len(statements) :
    statements[k].op = "setitem" =>
      /\ PyEval(statements[k].key) # PyError
      /\ \A r \in 1..Len(statements[k].list) : PyEval(statements[k].list[r]) # PyError

\* d[key] = list: a key already in the dictionary keeps its place and takes
\* the new list.
PyDict(items) == [py |-> "dict", items |-> items]
PyList(items) == [py |-> "list", items |-> items]
PySetItem(d, key, list) ==
  IF \E k \in 1..Len(d.items) : d.items[k][1] = key
  THEN PyDict([k \in 1..Len(d.items) |->
                 IF d.items[k][1] = key THEN <<key, list>> ELSE d.items[k]])
  ELSE PyDict(Append(d.items, <<key, list>>))

\* pd.DataFrame(dict of equally long lists): one column per key, in the order
\* of the keys; no key, no row.
DataFrame(columns, values) ==
  [py |-> "DataFrame", columns |-> columns, values |-> values,
   rows |-> IF values = <<>> THEN 0 ELSE Len(values[1])]
PyDataFrame(d) ==
  DataFrame([k \in 1..Len(d.items) |-> d.items[k][1]],
            [k \in 1..Len(d.items) |-> d.items[k][2]])

\* pd.concat(frames, ignore_index=True) of frames with the same columns: the
\* rows of the frames one after the other, in the order of the list.
RECURSIVE PyConcat(_)
PyConcat(frames) ==
  IF Len(frames) = 1 THEN frames[1]
  ELSE LET rest == PyConcat(Tail(frames))
       IN DataFrame(frames[1].columns,
                    [c \in 1..Len(frames[1].columns) |-> frames[1].values[c] \o rest.values[c]])

\* The variables after the statements from k on have run.
Bind(env, name, value) ==
  [n \in DOMAIN env \cup {name} |-> IF n = name THEN value ELSE env[n]]
RECURSIVE PyExec(_, _, _)
PyExec(statements, k, env) ==
  IF k > Len(statements) THEN env
  ELSE LET st == statements[k]
           value ==
             IF st.op = "dict" THEN PyDict(<<>>)
             ELSE IF st.op = "list" THEN PyList(<<>>)
             ELSE IF st.op = "setitem"
               THEN PySetItem(env[st.target], PyEval(st.key),
                              [r \in 1..Len(st.list) |-> PyEval(st.list[r])])
             ELSE IF st.op = "DataFrame" THEN PyDataFrame(env[st.source])
             ELSE IF st.op = "append" THEN PyList(Append(env[st.target].items, env[st.source]))
             ELSE PyConcat(env[st.source].items)
       IN PyExec(statements, k + 1, Bind(env, st.target, value))

\* The table bound to `target` once the script has run, or PyError.
PyRun(statements, target) ==
  IF ~Compiles(statements) THEN PyError
  ELSE PyExec(statements, 1, [n \in {} |-> PyNone])[target]

\* -------------------------------------------------------------- the sheets
MaxStrLen == 3
MaxCols == 2
MaxRows == 2
MaxChunks == 3

\* What processExcelFile makes of the rows under a header row.
Sheet(sheetName, headers, rows) ==
  [sheetName |-> sheetName, headers |-> headers, data |-> rows,
   rowCount |-> Len(rows), columnCount |-> Len(headers)]

Strings == SeqsUpTo(Chars, MaxStrLen)
Cells ==
  {Null, Undefined, Bool(TRUE), Bool(FALSE), Num(0), Num(42), Num(-7), Obj(<<"a", Quote>>)}
  \cup {Str(s) : s \in Strings}

\* One cell under one header, for every cell value.
CellSheets == {Sheet(<<"S", "1">>, <<<<"a">>>>, <<<<c>>>>) : c \in Cells}

\* Small sheets: header lists with plain, quoted and repeated names and a name
\* that ends in a backslash, rows shorter than, as long as and longer than the
\* header list.
Headers == {<<"a">>, <<"n">>, <<"a", Quote>>, <<"a", Backslash>>}
SampleRows ==
  {<<>>, <<Num(1)>>, <<Str(<<"a">>), Null>>, <<Num(2), Str(<<Quote>>), Bool(TRUE)>>}
SmallSheets ==
  {Sheet(<<"S", " ", "1">>, h, d) :
     h \in SeqsUpTo(Headers, MaxCols), d \in SeqsUpTo(SampleRows, MaxRows)}

\* Large sheets: row i holds the number i in its first cell, so that every row
\* is told from every other, and a cell of every kind in turn in the others;
\* the row counts lie around the threshold and around the multiples of the
\* chunk size.
SampleCells ==
  <<Null, Undefined, Str(<<>>), Str(<<"a", Quote, Backslash, DoubleQuote, Newline, Return, Tab, "n">>),
    Num(-7), Bool(TRUE), Bool(FALSE), Obj(<<"a", Quote, Backslash>>)>>
NumberedRows(n, width) ==
  [i \in 1..n |->
     [c \in 1..width |-> IF c = 1 THEN Num(i) ELSE SampleCells[((i + c) % Len(SampleCells)) + 1]]]
LargeRowCounts ==
  {LargeSheetRows - 1, LargeSheetRows, LargeSheetRows + 1}
  \cup {k * ChunkSize + d : k \in 2..MaxChunks, d \in {-1, 0, 1}}
LargeHeaders == {<<<<"a">>>>, <<<<"a">>, <<"n">>>>, <<<<"a", Quote>>, <<"a">>>>}
LargeSheets ==
  {Sheet(<<"S", "1">>, h, NumberedRows(n, Len(h))) : n \in LargeRowCounts, h \in LargeHeaders}

\* ------------------------------------------------------------- its actions
Script(by, statements, target) ==
  [kind |-> "script", by |-> by, statements |-> statements, target |-> target]

pipeline == <<now, files, pc, scriptPath, timeoutMs, python, loaded, stdout, stderr,
              isTimedOut, lastOutputTime, timeout, progressMonitor, signal,
              runOutcome, settleCalls, outcome, fileAtSettle, warned, caught,
              exitCode, lastError, args>>

\* executeAnalysis asks for the code of a dataset with this one sheet.
GenerateForAnalysis ==
  /\ sheet # None /\ script = None
  /\ script' = Script("analysis", generateDataFrameCreationCode(<<sheet>>),
                      SheetVarName(<<"df_">>, sheet.sheetName))
  /\ UNCHANGED <<pipeline, server, upload, sheet, frame, result, printed>>

\* executeComparison asks for the code of two datasets; the sheet is the one
\* of the first.
GenerateForComparison ==
  /\ sheet # None /\ script = None
  /\ script' = Script("comparison", generateComparisonDataFrameCreationCode(<<sheet>>, <<sheet>>),
                      SheetVarName(<<"df1_">>, sheet.sheetName))
  /\ UNCHANGED <<pipeline, server, upload, sheet, frame, result, printed>>

\* The interpreter runs the construction code.
LoadScript ==
  /\ script # None /\ frame = None
  /\ frame' = PyRun(script.statements, script.target)
  /\ UNCHANGED <<pipeline, server, upload, sheet, script, result, printed>>

NextSerializer ==
  \/ GenerateForAnalysis
  \/ GenerateForComparison
  \/ LoadScript

InitSerializer(sheets) ==
  /\ NoRequest /\ NoTraffic /\ NoUpload
  /\ sheet \in sheets
  /\ script = None /\ frame = None /\ result = None /\ printed = None

\* The serializer on every cell value and on the small sheets.
InitSmall == InitSerializer(CellSheets \cup SmallSheets)
SpecSerializer == InitSmall /\ [][NextSerializer]_vars

\* The serializer on the large sheets.
InitLarge == InitSerializer(LargeSheets)
SpecChunked == InitLarge /\ [][NextSerializer]_vars

\* ============================================================ the epilogue
\* The lines the orchestrator puts after the analysis code: they print the
\* `result` variable as JSON. A result is known by whether the analysis code
\* assigned it, whether json.dumps accepts its converted form, and the text
\* json.dumps gives.
ResultLimit == 20000
TruncatedLength == 1000
TruncationMark == <<".", ".", ".", " ", "[", "T", "R", "U", "N", "C", "A", "T", "E", "D", "]">>
MaxExcess == 2

Result(assigned, serializable, json) ==
  [kind |-> "result", assigned |-> assigned, serializable |-> serializable, json |-> json]

\* json.dumps of a string of n - 2 characters, the characters of `fill` in turn.
JsonText(n, fill) ==
  [i \in 1..n |-> IF i = 1 \/ i = n THEN DoubleQuote ELSE fill[((i - 2) % Len(fill)) + 1]]
Fillings == {<<"a">>, <<"a", "b">>, <<"1", ",", " ">>, <<".">>, <<"]", "[">>}
ResultLengths ==
  {2, TruncatedLength, TruncatedLength + 1}
  \cup {ResultLimit + d : d \in (0 - MaxExcess)..MaxExcess}
Results ==
  {Result(FALSE, TRUE, <<>>), Result(TRUE, FALSE, <<>>)}
  \cup {Result(TRUE, TRUE, JsonText(n, f)) : n \in ResultLengths, f \in Fillings}

\* What the script prints last: a JSON text as it is, or json.dumps of a
\* string or of an object.
PrintedText(by, text) == [kind |-> "printed", by |-> by, form |-> "text", text |-> text]
PrintedString(by, s) == [kind |-> "printed", by |-> by, form |-> "string", string |-> s]
PrintedObject(by, object) == [kind |-> "printed", by |-> by, form |-> "object", object |-> object]

\* s[:n]
PySlice(s, n) == SubSeq(s, 1, Min(n, Len(s)))

\* The epilogue of executeAnalysis.
AnalysisEpilogue(res) ==
  IF ~res.assigned THEN PrintedString("analysis", "No result variable found")
  ELSE IF ~res.serializable
    THEN PrintedObject("analysis", [error |-> "Error formatting result"])
  ELSE IF Len(res.json) > ResultLimit
    THEN PrintedObject("analysis",
           [status |-> "result_too_large",
            size |-> Len(res.json),
            message |-> <<"Result too large", Len(res.json)>>,
            truncated_result |-> PySlice(res.json, TruncatedLength) \o TruncationMark])
  ELSE PrintedText("analysis", res.json)

\* The epilogue of executeComparison.
ComparisonEpilogue(res) ==
  IF ~res.assigned
    THEN PrintedObject("comparison",
           [error |-> "No result variable found", type |-> "analysis_error"])
  ELSE IF ~res.serializable
    THEN PrintedObject("comparison", [error |-> "not serializable", type |-> "execution_error"])
  ELSE PrintedText("comparison", res.json)

RunAnalysisEpilogue ==
  /\ result # None /\ printed = None
  /\ printed' = AnalysisEpilogue(result)
  /\ UNCHANGED <<pipeline, server, upload, sheet, script, frame, result>>

RunComparisonEpilogue ==
  /\ result # None /\ printed = None
  /\ printed' = ComparisonEpilogue(result)
  /\ UNCHANGED <<pipeline, server, upload, sheet, script, frame, result>>

NextEpilogue ==
  \/ RunAnalysisEpilogue
  \/ RunComparisonEpilogue

InitEpilogue ==
  /\ NoRequest /\ NoTraffic /\ NoUpload
  /\ sheet = None /\ script = None /\ frame = None
  /\ result \in Results
  /\ printed = None
SpecEpilogue == InitEpilogue /\ [][NextEpilogue]_vars

\* ============================================================ the HTTP layer
\* GET /health awaits validatePythonEnvironment, which spawns a probe
\* interpreter and resolves from its 'close' and 'error' events; the handler
\* has no try/catch.
ProbeCodes == {0, 1, NullCode}

\* resolve(v) of the promise of validatePythonEnvironment: the first call
\* settles it.
ProbeResolve(r, v) ==
  pythonAvailable' = [pythonAvailable EXCEPT ![r] = IF @ = Pending THEN Resolved(v) ELSE @]

\* An 'error' handler that rejects with the spawn error.
ProbeErrorHandlerRejects(r) ==
  pythonAvailable' = [pythonAvailable EXCEPT ![r] =
                        IF @ = Pending THEN Rejected(SpawnFailed("ENOENT")) ELSE @]

\* python.on('error', () => resolve(false))
ProbeErrorHandler(r) == ProbeResolve(r, FALSE)

\* python.on('close', (code) => resolve(code === 0))
ProbeCloseHandler(r, code) == ProbeResolve(r, code = 0)

\* A response of the server.
Response(status, body) == [status |-> status, body |-> body]
Send(r, response) == responses' = [responses EXCEPT ![r] = Append(@, response)]
Finished(path) == [stage |-> "done", path |-> path]

\* GET /health arrives: the handler calls validatePythonEnvironment, which
\* spawns the probe, and awaits it.
HealthRequest(r) ==
  /\ route[r] = Idle
  /\ route' = [route EXCEPT ![r] = [stage |-> "probing", path |-> "/health"]]
  /\ probe' = [probe EXCEPT ![r] = "spawned"]
  /\ UNCHANGED <<pipeline, generation, upload, responses, unhandled, probeCode,
                 pythonAvailable>>

\* The probe could not be spawned: 'error'.
ProbeError(r) ==
  /\ probe[r] = "spawned"
  /\ probe' = [probe EXCEPT ![r] = "failed"]
  /\ ProbeErrorHandler(r)
  /\ UNCHANGED <<pipeline, generation, upload, route, responses, unhandled, probeCode>>

\* 'close' of the probe: with its exit code, with null when a signal ended
\* it, with the errno after a failed spawn.
ProbeClose(r) ==
  /\ probe[r] \in {"spawned", "failed"}
  /\ \E code \in (IF probe[r] = "failed" THEN {SpawnErrCode} ELSE ProbeCodes) :
       /\ probeCode' = [probeCode EXCEPT ![r] = code]
       /\ ProbeCloseHandler(r, code)
  /\ probe' = [probe EXCEPT ![r] = "closed"]
  /\ UNCHANGED <<pipeline, generation, upload, route, responses, unhandled>>

\* The handler of GET /health continues after its await: res.json on a
\* value; a rejection would leave the async handler unhandled.
HealthRespond(r) ==
  /\ route[r] = [stage |-> "probing", path |-> "/health"]
  /\ pythonAvailable[r] # Pending
  /\ IF pythonAvailable[r].state = "resolved"
     THEN /\ Send(r, Response(200,
                 [status |-> "ok",
                  pythonEnvironment |-> IF pythonAvailable[r].val THEN "available"
                                        ELSE "unavailable"]))
          /\ UNCHANGED unhandled
     ELSE /\ unhandled' = [unhandled EXCEPT ![r] = TRUE]
          /\ UNCHANGED responses
  /\ route' = [route EXCEPT ![r] = Finished("/health")]
  /\ UNCHANGED <<pipeline, generation, upload, probe, probeCode, pythonAvailable>>

\* Two concurrent health checks.
NextHealth ==
  \/ \E r \in Reqs : HealthRequest(r)
  \/ \E r \in Reqs : ProbeError(r)
  \/ \E r \in Reqs : ProbeClose(r)
  \/ \E r \in Reqs : HealthRespond(r)
SpecHealth == Init /\ [][NextHealth]_vars

\* POST /query and POST /compare: one try block around the lookup of the
\* stored data, the code generation by the language model, the execution and
\* the interpretation; its catch block answers 500.
Paths == {"/query", "/compare"}
KindOf(path) == IF path = "/compare" THEN "comparison" ELSE "analysis"
LlmError == [tag |-> "LlmError"]
RouteEnv ==
  [ticks |-> PairTicks, steps |-> {1}, datasets |-> {<<LargeSheetRows>>},
   chunks |-> PairChunks, out |-> {"[2]"}, err |-> {"Traceback"},
   codes |-> {0, 1}, errors |-> {"ENOENT"}]

FailureTitle(path) ==
  IF path = "/compare" THEN "Failed to process comparison" ELSE "Failed to process query"

\* A handler whose catch block lets the error go.
RouteCatchRethrows(r, e) ==
  /\ unhandled' = [unhandled EXCEPT ![r] = TRUE]
  /\ route' = [route EXCEPT ![r] = Finished(@.path)]
  /\ UNCHANGED responses

\* The catch block: res.status(500).json({error, details: error.message}).
RouteCatch(r, e) ==
  /\ Send(r, Response(500, [error |-> FailureTitle(route[r].path), details |-> e]))
  /\ route' = [route EXCEPT ![r] = Finished(@.path)]
  /\ UNCHANGED unhandled

\* The request arrives: 400 when a field of the body is missing, else the
\* handler awaits getProcessedData.
RouteRequest(r) ==
  /\ route[r] = Idle
  /\ \E path \in Paths, valid \in BOOLEAN :
       IF valid
       THEN /\ route' = [route EXCEPT ![r] = [stage |-> "lookup", path |-> path]]
            /\ UNCHANGED responses
       ELSE /\ Send(r, Response(400, [error |-> "fields are required"]))
            /\ route' = [route EXCEPT ![r] = Finished(path)]
  /\ UNCHANGED <<pipeline, generation, upload, unhandled, probe, probeCode, pythonAvailable>>

\* getProcessedData returned: 404 on null, else the handler awaits the code
\* of the language model.
RouteLookup(r) ==
  /\ route[r].stage = "lookup"
  /\ \E found \in BOOLEAN :
       IF found
       THEN /\ route' = [route EXCEPT ![r] = [@ EXCEPT !.stage = "pipeline"]]
            /\ UNCHANGED responses
       ELSE /\ Send(r, Response(404, [error |-> "Data not found"]))
            /\ route' = [route EXCEPT ![r] = Finished(@.path)]
  /\ UNCHANGED <<pipeline, generation, upload, unhandled, probe, probeCode, pythonAvailable>>

\* generatePythonCode / generateComparisonCode rejected.
RouteGenerationFails(r) ==
  /\ route[r].stage = "pipeline" /\ pc[r] = "idle"
  /\ RouteCatch(r, LlmError)
  /\ UNCHANGED <<pipeline, generation, upload, probe, probeCode, pythonAvailable>>

\* The code arrived: the handler calls executeAnalysis for /query and
\* executeComparison for /compare, and awaits it.
RouteExecute(r, E) ==
  /\ route[r].stage = "pipeline"
  /\ Start(r, E)
  /\ scriptPath'[r][1] = KindOf(route[r].path)

\* The call settled: on a value the handler awaits the interpretation, on an
\* error the catch block runs.
RouteSettled(r) ==
  /\ route[r].stage = "pipeline" /\ pc[r] = "done"
  /\ IF outcome[r].state = "resolved"
     THEN /\ route' = [route EXCEPT ![r] = [@ EXCEPT !.stage = "interpreting"]]
          /\ UNCHANGED <<responses, unhandled>>
     ELSE RouteCatch(r, outcome[r].err)
  /\ UNCHANGED <<pipeline, generation, upload, probe, probeCode, pythonAvailable>>

\* interpretResults returned its text, or its fallback text when the
\* language model failed: res.json(response).
RouteRespond(r) ==
  /\ route[r].stage = "interpreting"
  /\ Send(r, Response(200, [result |-> outcome[r].val]))
  /\ route' = [route EXCEPT ![r] = Finished(@.path)]
  /\ UNCHANGED <<pipeline, generation, upload, unhandled, probe, probeCode, pythonAvailable>>

\* One request to /query or /compare with the whole execution under it.
NextRoutes ==
  \/ RouteRequest(1)
  \/ RouteLookup(1)
  \/ RouteGenerationFails(1)
  \/ RouteExecute(1, RouteEnv)
  \/ RouteSettled(1)
  \/ RouteRespond(1)
  \/ Tick(RouteEnv)
  \/ GenerationThrows(1)
  \/ WriteThrows(1)
  \/ WriteAndSpawn(1)
  \/ ProcLoad(1)
  \/ StdoutData(1, RouteEnv)
  \/ StderrData(1, RouteEnv)
  \/ MonitorTick(1)
  \/ TimeoutFire(1)
  \/ Close(1, RouteEnv)
  \/ ErrorEvent(1, RouteEnv)
SpecRoutes == Init /\ [][NextRoutes]_vars

\* ================================================================ the upload
\* processExcelFile turns the workbook of an uploaded file into the stored
\* dataset: of every sheet with at least one row, the first row as headers
\* and the rows after it as data, at most MaxRowsStored of them.
MaxRowsStored == 5000
RawSheet(sheetName, jsonData) == [sheetName |-> sheetName, jsonData |-> jsonData]

\* The body of the loop over workbook.SheetNames.
ProcessSheet(w) ==
  IF w.jsonData = <<>> THEN <<>>
  ELSE LET headers == w.jsonData[1]
           data == Tail(w.jsonData)
           kept == IF Len(data) > MaxRowsStored THEN SubSeq(data, 1, MaxRowsStored) ELSE data
       IN <<Sheet(w.sheetName, headers, kept)>>

processExcelFile(wb) ==
  [kind |-> "dataset",
   sheets |-> Flatten([k \in 1..Len(wb.sheets) |-> ProcessSheet(wb.sheets[k])])]

\* Workbooks: sheets with no row at all, with a header row and one data row,
\* with exactly MaxRowsStored data rows and with more; and pairs of short
\* sheets whose names differ in letter case or in a character that is neither
\* a letter nor a digit.
JsonData(n) == IF n = 0 THEN <<>> ELSE << <<<<"a">>>> >> \o NumberedRows(n - 1, 1)
SheetLengths == {0, 2, MaxRowsStored + 1, MaxRowsStored + 3}
SheetNames == {<<"S">>, <<"s">>, <<"s", " ">>, <<"s", "_">>, <<"s", "1">>}
LongWorkbooks ==
  {<<RawSheet(<<"S">>, JsonData(n))>> : n \in SheetLengths}
  \cup {<<RawSheet(<<"S">>, JsonData(n)), RawSheet(<<"1">>, JsonData(m))>> :
          n \in SheetLengths, m \in SheetLengths}
NamedWorkbooks ==
  {<<RawSheet(names[1], JsonData(2)), RawSheet(names[2], JsonData(2))>> :
     names \in {pair \in SheetNames \X SheetNames : pair[1] # pair[2]}}
Workbook(sheets) == [kind |-> "workbook", sheets |-> sheets]
Workbooks == {Workbook(sheets) : sheets \in LongWorkbooks \cup NamedWorkbooks}

\* POST /upload: the file is processed and stored.
ProcessExcelFile ==
  /\ workbook # None /\ processedData = None
  /\ processedData' = processExcelFile(workbook)
  /\ UNCHANGED <<pipeline, generation, server, workbook>>

\* The stored dataset is what a later /query or /compare hands to the
\* orchestrator.
RowCountsOf(stored) == [k \in 1..Len(stored.sheets) |-> stored.sheets[k].rowCount]
UploadedEnv == [SelectEnv EXCEPT !.datasets = {RowCountsOf(processedData)}]
ExecuteUploaded ==
  /\ processedData # None
  /\ Start(1, UploadedEnv)

\* The orchestrator asks the serializer for the code of the stored dataset.
GenerateUploaded ==
  /\ pc[1] = "generating" /\ script = None
  /\ script' =
       IF scriptPath[1][1] = "comparison"
       THEN Script("comparison",
                   generateComparisonDataFrameCreationCode(processedData.sheets,
                                                           processedData.sheets), <<>>)
       ELSE Script("analysis", generateDataFrameCreationCode(processedData.sheets), <<>>)
  /\ UNCHANGED <<pipeline, server, upload, sheet, frame, result, printed>>

NextUpload ==
  \/ ProcessExcelFile
  \/ ExecuteUploaded
  \/ GenerateUploaded
  \/ GenerationThrows(1)
  \/ WriteThrows(1)
InitUpload ==
  /\ NoRequest /\ NoGeneration /\ NoTraffic
  /\ workbook \in Workbooks
  /\ processedData = None
SpecUpload == InitUpload /\ [][NextUpload]_vars

\* ================================================================== claims
Done(r) == pc[r] = "done"
Active(r) == pc[r] \in {"generating", "running"}
Alive(r) == python[r] \in {"starting", "running"}

C2_SettlesOnce == \A r \in Reqs : settleCalls[r] <= 1

\* C3: when generation, writing or execution failed with an error E, the
\* call rejects with E even if deleting the script fails too.
C3_OriginalErrorKept ==
  \A r \in Reqs :
    Done(r) /\ caught[r] \notin {NoError, UnlinkEPERM, UnlinkENOENT}
      => outcome[r] = Rejected(caught[r])

\* C4: two calls whose lifetimes overlap have different script paths.
C4_DistinctPaths ==
  \A r \in Reqs, q \in Reqs :
    r # q /\ Active(r) /\ Active(q) => scriptPath[r] # scriptPath[q]

\* C5: under every interleaving of two requests, the script file of a request
\* that is executing is on disk with the content that request wrote (no other
\* request has overwritten or deleted it), every subprocess has read the
\* script of its own request, and a request that returns a value returns the
\* value of its own script.
C5_NoInterference ==
  \A r \in Reqs :
    /\ pc[r] = "running" => Content(files, scriptPath[r]) = r
    /\ loaded[r] # NotLoaded => loaded[r] = r
    /\ Done(r) /\ outcome[r].state = "resolved" => loaded[r] = r

\* C6: once the timeout timer has fired, the process has been sent SIGKILL
\* and runPythonScript has rejected with a Timeout error that states the
\* configured duration in seconds (120 or 300).
C6_TimeoutKillsAndReports ==
  \A r \in Reqs :
    timeout[r] = "fired" =>
      /\ signal[r] = "SIGKILL"
      /\ python[r] \in {"killed", "closed"}
      /\ runOutcome[r].state = "rejected"
      /\ runOutcome[r].err.tag = "Timeout"
      /\ runOutcome[r].err.seconds * 1000 = timeoutMs[r]
      /\ runOutcome[r].err.seconds \in {120, 300}

\* The extended timeout fired on a live process, and the killed process has
\* closed since.
C6_Witness ==
  \E r \in Reqs :
    /\ timeout[r] = "fired" /\ exitCode[r] = NullCode
    /\ runOutcome[r].state = "rejected" /\ runOutcome[r].err.seconds = 300

\* C7: every call of runPythonScript reaches a terminal outcome, after which
\* the subprocess is not running; without a 'close' or 'error' event that
\* outcome is the Timeout.
C7_EventuallyTerminal ==
  /\ [](pc[1] = "running" => <>(runOutcome[1] # Pending /\ ~Alive(1)))
  /\ [](runOutcome[1] # Pending => ~Alive(1))
  /\ [](runOutcome[1] # Pending /\ exitCode[1] = NoCode /\ lastError[1] = NoMessage
          => runOutcome[1] = Rejected(TimeoutError(timeoutMs[1])))

\* The subprocess never exited: the call timed out and the process was killed.
C7_Witness ==
  /\ runOutcome[1].state = "rejected" /\ runOutcome[1].err.tag = "Timeout"
  /\ python[1] = "killed" /\ exitCode[1] = NoCode

\* C8 (as claimed): a 'close' with a non-zero code while the timeout has not
\* fired makes runPythonScript reject with an execution-failed error carrying
\* that code and the stderr captured.
C8_NonZeroExitRejects ==
  \A r \in Reqs :
    exitCode[r] \notin {NoCode, 0} /\ ~isTimedOut[r]
      => runOutcome[r] = Rejected(ExecutionFailed(exitCode[r], stderr[r]))

\* C8 (amended): the same, when no spawn error has been reported before the
\* 'close'.
C8_NonZeroExitRejectsUnlessSpawnFailed ==
  \A r \in Reqs :
    exitCode[r] \notin {NoCode, 0} /\ ~isTimedOut[r] /\ lastError[r] = NoMessage
      => /\ runOutcome[r].state = "rejected"
         /\ runOutcome[r].err.tag = "ExecutionFailed"
         /\ runOutcome[r].err.code = exitCode[r]
         /\ runOutcome[r].err.stderr = stderr[r]

\* The process wrote two chunks to stderr and exited with code 1.
C8_Witness ==
  \E r \in Reqs :
    /\ exitCode[r] = 1 /\ ~isTimedOut[r] /\ Len(stderr[r]) = 2
    /\ stderr[r][1] # stderr[r][2]
    /\ runOutcome[r].state = "rejected" /\ runOutcome[r].err.tag = "ExecutionFailed"

\* C9: after an 'error' event, runPythonScript has rejected with a
\* spawn-failed error carrying the event's message, the timeout timer is
\* cancelled and no Timeout has been reported.
C9_SpawnErrorReported ==
  \A r \in Reqs :
    lastError[r] # NoMessage =>
      /\ runOutcome[r].state = "rejected"
      /\ runOutcome[r].err.tag = "SpawnFailed"
      /\ runOutcome[r].err.message = lastError[r]
      /\ timeout[r] = "cleared"
      /\ ~isTimedOut[r]

\* The spawn failed with EACCES, and the 'close' that follows has arrived.
C9_Witness ==
  \E r \in Reqs :
    /\ lastError[r] = "EACCES" /\ exitCode[r] = SpawnErrCode
    /\ runOutcome[r].state = "rejected" /\ runOutcome[r].err.tag = "SpawnFailed"

\* C10: on exit code 0, when some line of the captured stdout parses as
\* JSON, runPythonScript resolves with the parsed value of the last such line.
HasJsonLine(out) == \E i \in 1..Len(Split(out)) : JsonParses(Split(out)[i])
LastJsonLine(out) ==
  LET lines == Split(out)
  IN lines[CHOOSE i \in 1..Len(lines) :
             JsonParses(lines[i]) /\ \A j \in (i + 1)..Len(lines) : ~JsonParses(lines[j])]
C10_LastJsonLineReturned ==
  \A r \in Reqs :
    exitCode[r] = 0 /\ ~isTimedOut[r] /\ HasJsonLine(stdout[r])
      => runOutcome[r] = Resolved(JsonValue(JsonParse(LastJsonLine(stdout[r]))))

\* C11: on exit code 0, when no line of the captured stdout parses as JSON,
\* runPythonScript resolves with a plain string: the captured text without
\* its leading and trailing whitespace, nothing else removed.
IsTrimmedTextOf(t, out) ==
  \E i \in 1..(Len(out) + 1), j \in 0..Len(out) :
    /\ t = SubSeq(out, i, j)
    /\ \A k \in 1..(i - 1) : out[k] \in Whitespace
    /\ \A k \in (j + 1)..Len(out) : out[k] \in Whitespace
    /\ t # <<>> => t[1] \notin Whitespace /\ t[Len(t)] \notin Whitespace
C11_NoJsonResolvesTrimmedText ==
  \A r \in Reqs :
    exitCode[r] = 0 /\ ~isTimedOut[r] /\ ~HasJsonLine(stdout[r])
      => /\ runOutcome[r].state = "resolved"
         /\ runOutcome[r].val.type = "text"
         /\ IsTrimmedTextOf(runOutcome[r].val.value, stdout[r])

\* A script that printed free text inside blank lines exited with code 0: the
\* call resolved with the text between them.
C11_Witness ==
  \E r \in Reqs :
    /\ exitCode[r] = 0 /\ ~isTimedOut[r]
    /\ stdout[r] = <<"\n", "progress", "\n", "\n">>
    /\ runOutcome[r] = Resolved(RawText(<<"progress">>))

\* C12: once the timeout has fired, the outcome of runPythonScript is the
\* Timeout failure whatever stdout was captured, and neither resolve nor
\* reject is called again: a 'close' that arrives afterwards, even with exit
\* code 0 and a JSON line captured, parses and returns nothing.
C12_TimeoutDiscardsOutput ==
  \A r \in Reqs :
    isTimedOut[r] =>
      /\ runOutcome[r] = Rejected(TimeoutError(timeoutMs[r]))
      /\ settleCalls[r] = 1
      /\ Done(r) => outcome[r].state = "rejected"

\* The timeout fired with a JSON line captured, and the 'close' of the
\* process, which had exited with code 0, arrived afterwards.
C12_Witness ==
  \E r \in Reqs :
    /\ isTimedOut[r] /\ HasJsonLine(stdout[r]) /\ exitCode[r] = 0
    /\ runOutcome[r].state = "rejected" /\ runOutcome[r].err.tag = "Timeout"

\* C13: both executeAnalysis and executeComparison pass runPythonScript the
\* extended timeout of 300 s when some sheet of some dataset given has more
\* than 5000 rows, and the standard timeout of 120 s otherwise.
C13_TimeoutBySheetSize ==
  \A r \in Reqs :
    pc[r] # "idle" =>
      timeoutMs[r] =
        IF \E d \in 1..Len(args[r]) : \E i \in 1..Len(args[r][d]) : args[r][d][i] > 5000
        THEN 300000 ELSE 120000

\* C14: within one request the script is written, then the interpreter is
\* spawned on it, then the run reaches its terminal outcome, then the file is
\* deleted: the interpreter is spawned at most once and only with the script
\* fully written, and the file stays until the run has its outcome and the
\* subprocess is no longer running.
C14_LifecycleOrder ==
  /\ [](\A r \in Reqs :
         /\ python[r] # "none" => pc[r] \in {"running", "done"}
         /\ pc[r] = "running" /\ runOutcome[r] = Pending
              => Content(files, scriptPath[r]) = r)
  /\ [][\A r \in Reqs :
         /\ python[r] = "none" /\ python'[r] # "none"
              => Content(files', scriptPath[r]) = r /\ runOutcome[r] = Pending
         /\ python[r] # "none"
              => python'[r] # "none" /\ (python'[r] \in {"starting", "failing"} => python'[r] = python[r])
         /\ Exists(files, scriptPath[r]) /\ ~Exists(files', scriptPath[r])
              => runOutcome'[r] # Pending /\ ~Alive(r)' /\ pc'[r] = "done"]_vars

\* The whole order has happened: the script was run, the process closed with
\* code 0, the call returned its value and the file is gone.
C14_Witness ==
  /\ Done(1) /\ python[1] = "closed" /\ exitCode[1] = 0 /\ loaded[1] = 1
  /\ outcome[1].state = "resolved" /\ ~Exists(files, scriptPath[1])

\* C15: for a sheet of more than 5000 rows the generated code builds
\* ceil(rowCount / 3000) chunks, the k-th from the rows 3000k up to
\* min(3000(k+1), rowCount), appends them in that order and concatenates them,
\* so that the table loaded holds every row of the sheet once, in the order of
\* the sheet.
IsChunkColumn(st) ==
  /\ st.op = "setitem"
  /\ SubSeq(st.target, 1, Len(script.target)) = script.target
  /\ st.key = Quoted(EscapeHeader(sheet.headers[1]))
ChunkColumns == SelectSeq(script.statements, IsChunkColumn)
C15_ChunksCoverRowsInOrder ==
  script # None /\ sheet.rowCount > 5000 =>
    LET n == sheet.rowCount
        lists == ChunkColumns
    IN /\ 3000 * Len(lists) >= n /\ 3000 * (Len(lists) - 1) < n
       /\ \A k \in 1..Len(lists) :
            LET from == 3000 * (k - 1)
                to == IF 3000 * k < n THEN 3000 * k ELSE n
            IN /\ Len(lists[k].list) = to - from
               /\ \A r \in 1..(to - from) :
                    lists[k].list[r] = NumberToString(sheet.data[from + r][1].n)
       /\ frame # None =>
            /\ frame # PyError
            /\ frame.rows = n
            /\ \A i \in 1..n : frame.values[1][i] = PyInt(sheet.data[i][1].n)

\* A sheet of 6001 rows went through the comparison serializer in three
\* chunks and was loaded.
C15_Witness ==
  /\ sheet # None /\ script # None /\ frame # None
  /\ sheet.rowCount = 6001 /\ script.by = "comparison"
  /\ Len(ChunkColumns) = 3 /\ Len(ChunkColumns[3].list) = 1
  /\ frame.rows = 6001

\* C16: the code generated for a sheet, by the single-dataset and by the
\* comparison serializer, has a chunk list, appends and a concatenation exactly
\* when the sheet has more than 5000 rows; a sheet of 5000 rows or fewer is one
\* dictionary and one DataFrame per variable.
HasChunkCode(statements) ==
  \E k \in 1..Len(statements) : statements[k].op \in {"list", "append", "concat"}
CountOf(statements, op) == Cardinality({k \in 1..Len(statements) : statements[k].op = op})
C16_ChunkedIffAboveThreshold ==
  script # None =>
    /\ HasChunkCode(script.statements) <=> sheet.rowCount > 5000
    /\ sheet.rowCount <= 5000 =>
         /\ CountOf(script.statements, "DataFrame") = (IF script.by = "comparison" THEN 2 ELSE 1)
         /\ CountOf(script.statements, "dict") = CountOf(script.statements, "DataFrame")
         /\ \A k \in 1..Len(script.statements) :
              script.statements[k].op = "setitem" => Len(script.statements[k].list) = sheet.rowCount

\* A sheet of exactly 5000 rows went through the comparison serializer
\* unchunked.
C16_Witness ==
  /\ sheet # None /\ script # None
  /\ sheet.rowCount = 5000 /\ script.by = "comparison"
  /\ ~HasChunkCode(script.statements)

\* C17: every serializer (unchunked, chunked, comparison) writes for a cell:
\* None for null, undefined and the empty string; for a non-empty string the
\* quoted text with backslash, both quotes, newline, carriage return and tab
\* escaped; for a number its numeral; True or False for a boolean; for
\* anything else its string form, escaped as a string.
EscapedChar(c) ==
  IF c = Backslash THEN <<Backslash, Backslash>>
  ELSE IF c = Quote THEN <<Backslash, Quote>>
  ELSE IF c = DoubleQuote THEN <<Backslash, DoubleQuote>>
  ELSE IF c = Newline THEN <<Backslash, "n">>
  ELSE IF c = Return THEN <<Backslash, "r">>
  ELSE IF c = Tab THEN <<Backslash, "t">>
  ELSE <<c>>
EscapedText(text) == <<Quote>> \o Flatten([k \in 1..Len(text) |-> EscapedChar(text[k])]) \o <<Quote>>
IsEncodingOf(literal, cell) ==
  IF cell \in {Null, Undefined, Str(<<>>)} THEN literal = <<"N", "o", "n", "e">>
  ELSE IF cell.t = "string" THEN literal = EscapedText(cell.s)
  ELSE IF cell.t = "number" THEN PyEval(literal) = PyInt(cell.n)
  ELSE IF cell.t = "boolean"
    THEN literal = (IF cell.b THEN <<"T", "r", "u", "e">> ELSE <<"F", "a", "l", "s", "e">>)
  ELSE literal = EscapedText(cell.s)
CellAt(i, c) == IF c <= Len(sheet.data[i]) THEN sheet.data[i][c] ELSE Undefined
ColumnLiterals(c) ==
  LET IsColumn(st) ==
        /\ st.op = "setitem"
        /\ SubSeq(st.target, 1, Len(script.target)) = script.target
        /\ st.key = Quoted(EscapeHeader(sheet.headers[c]))
      lists == SelectSeq(script.statements, IsColumn)
  IN Flatten([k \in 1..Len(lists) |-> lists[k].list])
C17_CellEncoding ==
  script # None =>
    \A c \in 1..Len(sheet.headers) :
      LET literals == ColumnLiterals(c)
      IN /\ Len(literals) = sheet.rowCount
         /\ \A i \in 1..sheet.rowCount : IsEncodingOf(literals[i], CellAt(i, c))

\* Cells of every kind went through the chunked code of the comparison
\* serializer.
C17_Witness ==
  /\ sheet # None /\ script # None /\ Len(sheet.headers) = 2
  /\ sheet.rowCount = 5001 /\ script.by = "comparison"
  /\ \A k \in 1..Len(SampleCells) : \E i \in 1..sheet.rowCount : CellAt(i, 2) = SampleCells[k]

\* C18: for every non-empty string cell made of backslashes, quotes, double
\* quotes, newlines, tabs, carriage returns and ordinary characters, the
\* literal written for it reads back, by the interpreter's rules for string
\* literals, as exactly that string, and that string is what a loaded table
\* holds.
C18_EscapeRoundTrip ==
  script # None /\ Len(sheet.headers) = 1 =>
    \A i \in 1..sheet.rowCount :
      LET cell == CellAt(i, 1)
      IN cell.t = "string" /\ cell.s # <<>> =>
           /\ PyEval(script.statements[2].list[i]) = PyStr(cell.s)
           /\ frame # None /\ frame # PyError => frame.values[1][i] = PyStr(cell.s)

\* The cell that is a backslash followed by the letter n was written, loaded
\* and read back as those two characters.
C18_Witness ==
  /\ sheet # None /\ script # None /\ frame # None /\ frame # PyError
  /\ sheet.data = <<<<Str(<<Backslash, "n">>)>>>>
  /\ frame.values[1][1] = PyStr(<<Backslash, "n">>)

\* C19: the table loaded from the code generated for a sheet has as many rows
\* as the sheet, as many columns as the sheet has headers, and the headers as
\* its column names in their order, whatever the header list and the rows.
C19_ShapeRoundTrip ==
  frame # None =>
    /\ frame # PyError
    /\ frame.rows = sheet.rowCount
    /\ Len(frame.columns) = Len(sheet.headers)
    /\ frame.columns = [c \in 1..Len(sheet.headers) |-> PyStr(sheet.headers[c])]

\* C20: when the JSON text of the result is longer than 20000 characters, the
\* generated script prints, instead of that text, a result_too_large object
\* with status, size, message and truncated_result, and truncated_result is a
\* strict prefix of the JSON text.
IsStrictPrefix(p, text) == Len(p) < Len(text) /\ SubSeq(text, 1, Len(p)) = p
C20_LargeResultEnvelope ==
  printed # None /\ result.assigned /\ result.serializable /\ Len(result.json) > 20000 =>
    /\ printed.form = "object"
    /\ DOMAIN printed.object = {"status", "size", "message", "truncated_result"}
    /\ printed.object.status = "result_too_large"
    /\ printed.object.size = Len(result.json)
    /\ IsStrictPrefix(printed.object.truncated_result, result.json)

\* C24: runPythonScript resolves with a value only in the step of a 'close'
\* with exit code 0 while the timeout has not fired: never after the timeout,
\* never after a spawn error, never on a non-zero or absent exit code.
C24_ResolvesOnlyOnCleanClose ==
  /\ [](\A r \in Reqs :
         runOutcome[r].state = "resolved" =>
           exitCode[r] = 0 /\ ~isTimedOut[r] /\ lastError[r] = NoMessage)
  /\ [][\A r \in Reqs :
         runOutcome[r] = Pending /\ runOutcome'[r].state = "resolved" =>
           /\ exitCode[r] = NoCode /\ exitCode'[r] = 0
           /\ ~isTimedOut[r] /\ timeout[r] = "armed"
           /\ lastError[r] = NoMessage]_vars

\* A process that wrote a JSON line closed with code 0 before the timeout:
\* the call resolved with the parsed line.
C24_Witness ==
  /\ exitCode[1] = 0 /\ ~isTimedOut[1] /\ timeout[1] = "cleared"
  /\ runOutcome[1] = Resolved(JsonValue("[2]"))

\* C25: a step of the stall monitor, whether it warns or not, changes nothing
\* but the warning: it does not kill the process, cancel or re-arm the
\* timeout, or settle the call. It warns exactly when no stdout chunk has
\* arrived for more than 60 s.
C25_MonitorOnlyWarns ==
  [][\A r \in Reqs :
      warned'[r] # warned[r] =>
        /\ now - lastOutputTime[r] > 60000
        /\ UNCHANGED <<python, signal, timeout, timeoutMs, isTimedOut, runOutcome,
                       settleCalls, outcome, pc, files, exitCode, lastError,
                       progressMonitor, stdout, stderr>>]_vars

\* The monitor warned about a silent process, which then closed with code 0:
\* the call resolved.
C25_Witness ==
  /\ warned[1] /\ exitCode[1] = 0 /\ runOutcome[1].state = "resolved"

\* C26: once runPythonScript has its outcome, the timeout timer and the stall
\* monitor of the call are both cancelled (or, for the timeout timer, spent).
C26_TimersCancelled ==
  \A r \in Reqs :
    runOutcome[r] # Pending =>
      /\ timeout[r] \in {"cleared", "fired"}
      /\ progressMonitor[r] = "cleared"

\* C27: when runPythonScript resolved with a value, the call of
\* executeAnalysis / executeComparison resolves with that value, whatever
\* happens to the deletion of the script.
C27_SuccessSurvivesCleanup ==
  \A r \in Reqs :
    Done(r) /\ runOutcome[r].state = "resolved" => outcome[r] = runOutcome[r]

\* C28: on exit code 0 the call resolves with the parsed value of the last
\* line that is JSON, the literal null included, whenever there is such a
\* line, and with the trimmed text only when there is none.
C28_RawTextOnlyWithoutJson ==
  \A r \in Reqs :
    exitCode[r] = 0 /\ ~isTimedOut[r] =>
      /\ runOutcome[r].state = "resolved"
      /\ runOutcome[r].val.type = "text" <=> ~HasJsonLine(stdout[r])
      /\ HasJsonLine(stdout[r]) =>
           runOutcome[r].val = JsonValue(JsonParse(LastJsonLine(stdout[r])))

\* C21: when the analysis code assigned no variable named result, the
\* generated script, for a single dataset and for a comparison alike, prints
\* a JSON object whose error field is "No result variable found".
C21_NoResultEnvelope ==
  printed # None /\ ~result.assigned =>
    /\ printed.form = "object"
    /\ "error" \in DOMAIN printed.object
    /\ printed.object.error = "No result variable found"

\* C22: validatePythonEnvironment never rejects and nothing escapes the
\* handler of GET /health: its promise is true exactly when the probe closed
\* with exit code 0, and false when the probe closed with another code or
\* with none, or could not be spawned.
C22_ProbeNeverRejects ==
  \A r \in Reqs :
    /\ pythonAvailable[r].state # "rejected"
    /\ ~unhandled[r]
    /\ probe[r] = "spawned" => pythonAvailable[r] = Pending
    /\ probe[r] = "failed" => pythonAvailable[r] = Resolved(FALSE)
    /\ probe[r] = "closed" => pythonAvailable[r] = Resolved(probeCode[r] = 0)
    /\ pythonAvailable[r] = Resolved(TRUE) => probe[r] = "closed" /\ probeCode[r] = 0
    /\ responses[r] # <<>> =>
         /\ Len(responses[r]) = 1 /\ responses[r][1].status = 200
         /\ responses[r][1].body.pythonEnvironment = "available" <=>
              probe[r] = "closed" /\ probeCode[r] = 0

\* One health check answered "available" after its probe closed with code 0,
\* the other "unavailable" after its probe could not be spawned.
C22_Witness ==
  /\ probe[1] = "closed" /\ probeCode[1] = 0
  /\ responses[1] # <<>> /\ responses[1][1].body.pythonEnvironment = "available"
  /\ probeCode[2] = SpawnErrCode /\ pythonAvailable[2] = Resolved(FALSE)
  /\ responses[2] # <<>> /\ responses[2][1].body.pythonEnvironment = "unavailable"

\* C23: a request to /query or /compare never leaves a rejection unhandled
\* and never gets a second response; once its handler has returned it has
\* exactly one response, and when the code generation or the execution failed
\* (spawn failure, timeout, non-zero exit, cleanup error) that response is a
\* 500 carrying the error.
C23_FailuresAnsweredOnce ==
  \A r \in Reqs :
    /\ ~unhandled[r]
    /\ Len(responses[r]) <= 1
    /\ route[r].stage = "done" =>
         /\ Len(responses[r]) = 1
         /\ pc[r] = "done" /\ outcome[r].state = "rejected" =>
              /\ responses[r][1].status = 500
              /\ responses[r][1].body.details = outcome[r].err
         /\ responses[r][1].status = 500 =>
              \/ pc[r] = "done" /\ outcome[r].state = "rejected"
              \/ pc[r] = "idle" /\ responses[r][1].body.details = LlmError
         /\ responses[r][1].status = 200 =>
              /\ outcome[r].state = "resolved"
              /\ responses[r][1].body.result = outcome[r].val

\* The execution of a /compare request timed out and the request was
\* answered 500 with the timeout error.
C23_Witness ==
  /\ route[1] = Finished("/compare") /\ isTimedOut[1]
  /\ responses[1] = <<Response(500, [error |-> "Failed to process comparison",
                                      details |-> TimeoutError(ComparisonTimeoutMs)])>>

\* The variables a script binds a table to.
FrameVariables(statements) ==
  {statements[k].target : k \in {j \in 1..Len(statements) : statements[j].op = "DataFrame"}}

\* C29: in the script generated for a stored dataset, two sheets with
\* different names get different variable names, so the script binds as many
\* tables as the dataset has sheets (for a comparison: as both datasets have).
C29_SheetsHaveOwnVariables ==
  processedData # None /\ script # None =>
    LET sheets == processedData.sheets
        prefix == IF script.by = "comparison" THEN <<"df1_">> ELSE <<"df_">>
    IN /\ \A i, j \in 1..Len(sheets) :
            sheets[i].sheetName # sheets[j].sheetName =>
              SheetVarName(prefix, sheets[i].sheetName) # SheetVarName(prefix, sheets[j].sheetName)
       /\ Cardinality(FrameVariables(script.statements)) =
            Len(sheets) * (IF script.by = "comparison" THEN 2 ELSE 1)

\* Every stored sheet has rowCount = data.length <= 5000 and holds the first
\* rows of the uploaded sheet of its name.
StoredSheetsBounded ==
  processedData # None =>
    /\ \A k \in 1..Len(processedData.sheets) :
         LET stored == processedData.sheets[k]
         IN /\ stored.rowCount = Len(stored.data)
            /\ stored.rowCount <= 5000
            /\ \E w \in 1..Len(workbook.sheets) :
                 LET uploaded == workbook.sheets[w]
                 IN /\ uploaded.sheetName = stored.sheetName
                    /\ uploaded.jsonData # <<>>
                    /\ stored.rowCount = Min(Len(uploaded.jsonData) - 1, 5000)
                    /\ stored.data = SubSeq(uploaded.jsonData, 2, stored.rowCount + 1)
    /\ \A d \in 1..Len(args[1]) : \A i \in 1..Len(args[1][d]) : ~(args[1][d][i] > 5000)
UploadNeverChunked == script # None => ~HasChunkCode(script.statements)

\* C30: every sheet stored by processExcelFile has rowCount = data.length
\* and at most 5000 rows, the first 5000 of a longer sheet; so for a stored
\* dataset the orchestrator selects the 120 s timeout and the serializer
\* writes no chunk.
C30_UploadsBelowThreshold ==
  /\ StoredSheetsBounded
  /\ UploadNeverChunked
  /\ pc[1] # "idle" => timeoutMs[1] = 120000

====
